---- MODULE Spec2Model ----
(***************************************************************************)
(* Poly1305 and Poly1305-AES of sjcl (core/poly1305.js).                   *)
(*                                                                         *)
(* A bitArray is a sequence of 32-bit words; a word is modelled by its     *)
(* four bytes, most significant first, together with the number of valid   *)
(* bits that sjcl.bitArray keeps above bit 32 of a partial last word.      *)
(* A big number (sjcl.bn) is its sequence of limbs, least significant      *)
(* first, each limb holding `radix` bits.                                  *)
(***************************************************************************)
EXTENDS Integers, Sequences, FiniteSets, TLC

\* ------------------------------------------------------------------------
\* generic helpers
\* ------------------------------------------------------------------------

Min(a, b) == IF a < b THEN a ELSE b

Max(a, b) == IF a < b THEN b ELSE a

Pow2(n) == 2 ^ n

\* s as an explicit tuple
Tup(s) == SubSeq(s, 1, Len(s))

\* true of every sequence.  TLC evaluates the argument of an operator where
\* the operator first uses it; an operator that starts with Known(s) has s
\* evaluated before its own work, which keeps the evaluation of long chains
\* shallow.
Known(s) == Len(s) >= 0

Reverse(s) == IF Known(s) THEN Tup([i \in 1..Len(s) |-> s[Len(s) + 1 - i]]) ELSE <<>>

\* s padded with zeros to n entries (s itself when it is longer)
Pad(s, n) ==
  IF Known(s) THEN Tup([i \in 1..Max(n, Len(s)) |-> IF i <= Len(s) THEN s[i] ELSE 0])
  ELSE <<>>

\* s without its most significant zero entries, one entry at least
Trim(s) ==
  IF Known(s) /\ \E i \in 1..Len(s) : s[i] # 0
    THEN SubSeq(s, 1, CHOOSE k \in 1..Len(s) :
                        s[k] # 0 /\ \A j \in (k + 1)..Len(s) : s[j] = 0)
    ELSE <<0>>

\* one step of carry propagation in base B: every entry keeps its low
\* digit and takes the overflow of the entry below
Shift(ds, B) ==
  IF Known(ds)
    THEN Tup([i \in 1..Len(ds) |->
                (ds[i] % B) + (IF i > 1 THEN ds[i - 1] \div B ELSE 0)])
    ELSE <<>>

\* the end of carry propagation over entries that are at most B: what is
\* left is a carry of one that an entry of B starts and entries of B - 1
\* pass on
Settle(p, B) ==
  IF Known(p)
    THEN Tup([i \in 1..Len(p) |->
                (p[i] + (IF \E j \in 1..(i - 1) :
                              p[j] = B /\ \A m \in (j + 1)..(i - 1) : p[m] = B - 1
                           THEN 1 ELSE 0)) % B])
    ELSE <<>>

\* carry propagation in base B over entries below 2^31, two digits added
\* for the overflow: after three steps every entry is at most B
Carry(ds, B) == Settle(Shift(Shift(Shift(Pad(ds, Len(ds) + 2), B), B), B), B)

\* ------------------------------------------------------------------------
\* sjcl.bitArray
\* ------------------------------------------------------------------------

getPartial(x) == x.p

bitLength(a) ==
  IF Len(a) = 0 THEN 0 ELSE (Len(a) - 1) * 32 + getPartial(a[Len(a)])

\* Array.prototype.slice(start, end) and Array.prototype.slice(start)
slice(a, start, end) == SubSeq(a, start + 1, Min(end, Len(a)))

sliceFrom(a, start) == SubSeq(a, start + 1, Len(a))

\* the bytes of a byte-aligned bitArray, in order
toBytes(a) ==
  IF Known(a)
    THEN Tup([i \in 1..(bitLength(a) \div 8) |->
                a[((i - 1) \div 4) + 1].v[((i - 1) % 4) + 1]])
    ELSE <<>>

\* the bitArray of a byte sequence: full words, then a partial word whose
\* unused low bytes are zero
fromBytes(bs) ==
  IF Known(bs)
    THEN Tup([k \in 1..((Len(bs) + 3) \div 4) |->
                [v |-> Tup([j \in 1..4 |-> IF 4 * (k - 1) + j <= Len(bs)
                                             THEN bs[4 * (k - 1) + j] ELSE 0]),
                 p |-> IF 4 * k <= Len(bs) THEN 32 ELSE 8 * (Len(bs) - 4 * (k - 1))]])
    ELSE <<>>

\* sjcl.bitArray.concat on byte-aligned arrays
concat(a1, a2) ==
  IF Len(a1) = 0 \/ Len(a2) = 0 THEN a1 \o a2
  ELSE IF getPartial(a1[Len(a1)]) = 32 THEN a1 \o a2
  ELSE fromBytes(toBytes(a1) \o toBytes(a2))

\* sjcl.bitArray.equal: false at once on different bit lengths, otherwise
\* the XOR of every word pair is OR-ed together before the one test
equal(a, b) ==
  IF bitLength(a) # bitLength(b) THEN FALSE
  ELSE \A i \in 1..Len(a) : a[i].v = b[i].v

\* a comparison that stops at the first pair of words that differ
equalStepsEarly(a, b) ==
  IF bitLength(a) # bitLength(b) THEN 0
  ELSE IF \E i \in 1..Len(a) : a[i].v # b[i].v
    THEN CHOOSE i \in 1..Len(a) : a[i].v # b[i].v /\ \A j \in 1..(i - 1) : a[j].v = b[j].v
    ELSE Len(a)

\* the number of word comparisons (x |= a[i]^b[i]) sjcl.bitArray.equal makes
equalSteps(a, b) == IF bitLength(a) # bitLength(b) THEN 0 ELSE Len(a)

\* ------------------------------------------------------------------------
\* sjcl.bn and sjcl.bn.prime.p1305: limbs of `radix` bits, least
\* significant first.  Products are formed on half limbs so that every
\* intermediate value stays a small integer.
\* ------------------------------------------------------------------------

radix == 24

placeVal == Pow2(radix)

halfVal == Pow2(radix \div 2)

\* bn.cnormalize: carries propagated into, but not out of, the top limb
cnormalize(limbs) ==
  LET top(r) == Tup([i \in 1..Len(limbs) |->
                       IF i < Len(limbs) THEN r[i]
                       ELSE limbs[i] + r[i] + placeVal * r[i + 1]])
  IN  IF Known(limbs)
        THEN top(Carry(SubSeq(limbs, 1, Len(limbs) - 1), placeVal))
        ELSE <<>>

\* bn.normalize
normalize(limbs) == Trim(Carry(limbs, placeVal))

\* bn.addM: limb-wise addition, no carry
addM(this, that) ==
  IF Known(this) /\ Known(that)
    THEN Tup([i \in 1..Max(Len(this), Len(that)) |->
                (IF i <= Len(this) THEN this[i] ELSE 0)
                  + (IF i <= Len(that) THEN that[i] ELSE 0)])
    ELSE <<>>

\* the half limbs of a sequence of limbs below 2^radix, and back
Halves(n) ==
  IF Known(n)
    THEN Tup([i \in 1..(2 * Len(n)) |->
                IF i % 2 = 1 THEN n[(i + 1) \div 2] % halfVal ELSE n[i \div 2] \div halfVal])
    ELSE <<>>

toHalves(limbs) == Trim(Halves(normalize(limbs)))

Limbs(e) ==
  IF Known(e)
    THEN Tup([k \in 1..(Len(e) \div 2) |-> e[2 * k - 1] + halfVal * e[2 * k]])
    ELSE <<>>

fromHalves(d) == Trim(Limbs(Pad(d, 2 * ((Len(d) + 1) \div 2))))

\* the sum of a[i] * b[k + 1 - i] for i from lo to hi
RECURSIVE Conv(_, _, _, _, _)
Conv(a, b, k, lo, hi) ==
  IF lo > hi THEN 0
  ELSE IF lo = hi THEN a[lo] * b[k + 1 - lo]
  ELSE Conv(a, b, k, lo, (lo + hi) \div 2) + Conv(a, b, k, ((lo + hi) \div 2) + 1, hi)

\* schoolbook product of two half-limb sequences
MulHalves(a, b) ==
  IF Known(a) /\ Known(b)
    THEN Carry(Tup([k \in 1..(Len(a) + Len(b) - 1) |->
                      Conv(a, b, k, Max(1, k + 1 - Len(b)), Min(k, Len(a)))]), halfVal)
    ELSE <<>>

\* the prime 2^130 - 5 of sjcl.bn.prime.p1305
exponent == 130

coeff == 5

\* number of whole half limbs below bit `exponent`, and the bits left over
expHalves == exponent \div (radix \div 2)

expRest == Pow2(exponent % (radix \div 2))

\* d < 2^exponent
Below(d) == Len(d) <= expHalves \/ (Len(d) = expHalves + 1 /\ d[Len(d)] < expRest)

\* d mod 2^exponent and d div 2^exponent
LowPart(d) ==
  Tup([i \in 1..Min(Len(d), expHalves + 1) |->
         IF i = expHalves + 1 THEN d[i] % expRest ELSE d[i]])

HighPart(d) ==
  Tup([j \in 1..(Len(d) - expHalves) |->
         (d[expHalves + j] \div expRest)
           + (IF expHalves + j + 1 <= Len(d)
                THEN (d[expHalves + j + 1] % expRest) * (halfVal \div expRest) ELSE 0)])

\* lo + coeff * hi, entry by entry
FoldHigh(lo, hi) ==
  IF Known(lo) /\ Known(hi)
    THEN Tup([i \in 1..Max(Len(lo), Len(hi)) |->
                (IF i <= Len(lo) THEN lo[i] ELSE 0)
                  + coeff * (IF i <= Len(hi) THEN hi[i] ELSE 0)])
    ELSE <<>>

\* d for d + coeff < 2^exponent, otherwise d + coeff - 2^exponent
Final(d, y) == IF Below(y) THEN d ELSE Trim(LowPart(y))

\* the canonical representative in [0, 2^130 - 5) of a trimmed half-limb
\* sequence
RECURSIVE ModP(_)
ModP(d) ==
  IF Known(d) /\ Below(d)
    THEN Final(d, Trim(Carry([d EXCEPT ![1] = d[1] + coeff], halfVal)))
    ELSE ModP(Trim(Carry(FoldHigh(LowPart(d), HighPart(d)), halfVal)))

\* p1305.fullReduce
fullReduce(limbs) ==
  LET a == toHalves(limbs)
      q == ModP(a)
  IN  IF Known(a) /\ Known(q) THEN fromHalves(q) ELSE <<>>

\* p1305.mul: the product, reduced modulo 2^130 - 5
mul(this, that) ==
  LET a == toHalves(this)
      b == toHalves(that)
      m == Trim(MulHalves(a, b))
      q == ModP(m)
  IN  IF Known(a) /\ Known(b) /\ Known(m) /\ Known(q) THEN fromHalves(q) ELSE <<>>

\* bn.fromBits of a byte-aligned bitArray: the big-endian value of its bits
LimbsOfBytes(b) ==
  IF Known(b)
    THEN Tup([k \in 1..Max(1, Len(b) \div 3) |->
                IF Len(b) = 0 THEN 0
                ELSE b[3 * k - 2] + 256 * b[3 * k - 1] + 65536 * b[3 * k]])
    ELSE <<>>

fromBits(bits) ==
  LimbsOfBytes(Pad(Reverse(toBytes(bits)), 3 * (((bitLength(bits) \div 8) + 2) \div 3)))

\* bn.toBits(len) for a byte-aligned len: the low len bits, big-endian
BytesOfLimbs(n, len) ==
  IF Known(n)
    THEN Tup([i \in 1..(len \div 8) |->
                ((IF ((i - 1) \div 3) + 1 <= Len(n) THEN n[((i - 1) \div 3) + 1] ELSE 0)
                   \div Pow2(8 * ((i - 1) % 3))) % 256])
    ELSE <<>>

toBits(limbs, len) == fromBytes(Reverse(BytesOfLimbs(normalize(limbs), len)))

\* ------------------------------------------------------------------------
\* core/poly1305.js
\* ------------------------------------------------------------------------

bit129ndx == 128 \div radix

bit129value == Pow2(128 % radix)

\* byteswap: every word's bytes reversed; the result of the 32-bit
\* operators carries no partial-length mark
byteswap(r) ==
  IF Known(r) THEN Tup([i \in 1..Len(r) |-> [v |-> Reverse(r[i].v), p |-> 32]]) ELSE <<>>

\* bits128ToNum(a, offset, cls)
bits128ToNum(a, offset) == fromBits(Reverse(byteswap(slice(a, offset, offset + 4))))

\* x & ~m on naturals
RECURSIVE AndNot(_, _)
AndNot(x, m) ==
  IF x = 0 THEN 0 ELSE (x % 2) * (1 - (m % 2)) + 2 * AndNot(x \div 2, m \div 2)

\* word &= ~mask, the mask given by its four bytes
ClearWord(w, mask) == [v |-> Tup([j \in 1..4 |-> AndNot(w.v[j], mask[j])]), p |-> 32]

\* 0xf0 and 0x30000f0 as bytes, most significant first
mask0 == <<0, 0, 0, 240>>

\* a mask for words 1..3 that leaves their two low bits alone
mask123High == <<0, 0, 0, 240>>

mask123 == <<3, 0, 0, 240>>

\* a clamp that goes on over the s half
ClampKeyAll(key) ==
  Tup([i \in 1..Len(key) |->
         IF i = 1 THEN ClearWord(key[i], mask0) ELSE ClearWord(key[i], mask123)])

\* key[0] &= ~0xf0; key[1..3] &= ~0x30000f0
ClampKey(key) ==
  Tup([i \in 1..Len(key) |->
         IF i = 1 THEN ClearWord(key[i], mask0)
         ELSE IF i <= 4 THEN ClearWord(key[i], mask123)
         ELSE key[i]])

null == [isNull |-> TRUE, a |-> <<>>]

Buf(a) == [isNull |-> FALSE, a |-> a]

\* the fields a successful constructor sets, from the clamped key
NewContext(key) ==
  [r      |-> bits128ToNum(key, 0),
   s      |-> bits128ToNum(key, 4),
   h      |-> <<0>>,
   buffer |-> null]

\* ci.limbs[ndx] = (ci.limbs[ndx] || 0) + v
AddToLimb(limbs, ndx, v) ==
  IF Known(limbs)
    THEN Tup([i \in 1..Max(ndx + 1, Len(limbs)) |->
                (IF i <= Len(limbs) THEN limbs[i] ELSE 0) + (IF i = ndx + 1 THEN v ELSE 0)])
    ELSE <<>>

\* a block loop that multiplies before it adds
FoldMulFirst(h, ci, r) == addM(mul(h, r), ci)

\* one round of the block loop: h.addM(ci).cnormalize(); h = h.mul(r)
Fold(h, ci, r) ==
  LET u == cnormalize(addM(h, ci))
  IN  IF Known(ci) /\ Known(u) THEN mul(u, r) ELSE <<>>

\* the loop of update: for (i = 0; i < l; i += 4)
RECURSIVE Blocks(_, _, _, _, _)
Blocks(h, r, data, i, l) ==
  IF Known(h) /\ i < l
    THEN Blocks(Fold(h, AddToLimb(bits128ToNum(data, i), bit129ndx, bit129value), r),
                r, data, i + 4, l)
    ELSE h

\* an update that keeps a buffer of no bytes: i <= data.length
AbsorbKeepsEmpty(c, data, l) ==
  IF Known(data)
    THEN [c EXCEPT !.h = Blocks(c.h, c.r, data, 0, l),
                   !.buffer = IF l <= Len(data) THEN Buf(sliceFrom(data, l)) ELSE null]
    ELSE c

\* the whole 128-bit blocks of data folded, the rest kept
Absorb(c, data, l) ==
  IF Known(data)
    THEN [c EXCEPT !.h = Blocks(c.h, c.r, data, 0, l),
                   !.buffer = IF l < Len(data) THEN Buf(sliceFrom(data, l)) ELSE null]
    ELSE c

\* an update that forgets the bytes buffered by the call before
updateDropsBuffer(c, data) == Absorb(c, data, ((bitLength(data) \div 32) \div 4) * 4)

\* poly1305.prototype.update
update(c, data) ==
  IF Known(c.h) /\ ~c.buffer.isNull
    THEN Absorb(c, concat(c.buffer.a, data),
                ((bitLength(concat(c.buffer.a, data)) \div 32) \div 4) * 4)
    ELSE Absorb(c, data, ((bitLength(data) \div 32) \div 4) * 4)

\* a last block folded in even when nothing is buffered
LastBlockAlways(c) ==
  Fold(c.h,
       AddToLimb(bits128ToNum(c.buffer.a, 0), bitLength(c.buffer.a) \div radix,
                 Pow2(bitLength(c.buffer.a) % radix)),
       c.r)

\* the accumulator finalize works on: the copy of this._h, with the
\* buffered bytes, if any, folded in as a last block marked at bit l
LastBlock(c) ==
  IF Known(c.h) /\ ~c.buffer.isNull
    THEN Fold(c.h,
              AddToLimb(bits128ToNum(c.buffer.a, 0), bitLength(c.buffer.a) \div radix,
                        Pow2(bitLength(c.buffer.a) % radix)),
              c.r)
    ELSE c.h

\* the tag: the accumulator fully reduced, s added, the low 128 bits in
\* little-endian byte order
Tag(c) ==
  LET h  == LastBlock(c)
      hs == addM(fullReduce(h), c.s)
  IN  IF Known(h) /\ Known(hs) THEN Reverse(byteswap(toBits(hs, 128))) ELSE <<>>

\* a finalize that works on this._h itself: the in-place addM and
\* cnormalize of the last block stay in the context
finalizeNoCopy(c) ==
  [tag  |-> Tag(c),
   this |-> IF c.buffer.isNull THEN [c EXCEPT !.h = fullReduce(c.h)]
            ELSE [c EXCEPT !.h =
                    cnormalize(addM(c.h, AddToLimb(bits128ToNum(c.buffer.a, 0),
                                                   bitLength(c.buffer.a) \div radix,
                                                   Pow2(bitLength(c.buffer.a) % radix))))]]

\* poly1305.prototype.finalize: every in-place operation (addM, cnormalize,
\* fullReduce) acts on the copy of this._h or on a fresh number, so the
\* context the call leaves behind is the one it found
finalize(c) == [tag |-> Tag(c), this |-> c]

\* a verify whose comparison returns at the first pair of words that differ
CompareEarly(f, tag) ==
  [ok |-> equal(f.tag, tag), steps |-> equalStepsEarly(f.tag, tag), this |-> f.this]

\* poly1305.prototype.verify; steps counts the word comparisons made
Compare(f, tag) ==
  [ok |-> equal(f.tag, tag), steps |-> equalSteps(f.tag, tag), this |-> f.this]

\* a verify that compares with the tag before its words are put in
\* little-endian order
verifyWordOrder(c, tag) == Compare([tag |-> Reverse(finalize(c).tag), this |-> c], tag)

verify(c, tag) == Compare(finalize(c), tag)

\* function poly1305(key) called with new: the size check, the clamp of
\* the caller's array in place, the fields
NoContext == [r |-> <<>>, s |-> <<>>, h |-> <<>>, buffer |-> null]

poly1305(key) ==
  IF 8 # Len(key)
    THEN [threw |-> TRUE, key |-> key, this |-> NoContext]
    ELSE [threw |-> FALSE, key |-> ClampKey(key), this |-> NewContext(ClampKey(key))]

\* function poly1305(key, data) called without new
poly1305Call(key, data) ==
  IF 8 # Len(key)
    THEN [threw |-> TRUE, key |-> key, tag |-> <<>>]
    ELSE LET c == update(poly1305(key).this, data)
         IN  [threw |-> FALSE, key |-> ClampKey(key),
              tag |-> IF Known(c.h) THEN finalize(c).tag ELSE <<>>]

\* function poly1305aes(r, key, nonce[, data]); `block` is what
\* new sjcl.cipher.aes(key).encrypt(nonce) returns.  r.concat(s) is
\* Array.prototype.concat: a new array of the words of r and s, so the
\* caller's r is not the array the constructor clamps.
poly1305aes(r, key, nonce, block) ==
  IF 4 # Len(key) \/ 4 # Len(nonce)
    THEN [threw |-> TRUE, enc |-> 0, r |-> r, given |-> <<>>, this |-> NoContext]
    ELSE [threw |-> poly1305(r \o block).threw, enc |-> 1, r |-> r,
          given |-> r \o block, this |-> poly1305(r \o block).this]

poly1305aesCall(r, key, nonce, block, data) ==
  IF 4 # Len(key) \/ 4 # Len(nonce)
    THEN [threw |-> TRUE, enc |-> 0, r |-> r, given |-> <<>>, tag |-> <<>>]
    ELSE [threw |-> 8 # Len(r \o block), enc |-> 1, r |-> r,
          given |-> r \o block, tag |-> poly1305Call(r \o block, data).tag]

\* ------------------------------------------------------------------------
\* the caller: inputs and bounds
\* ------------------------------------------------------------------------

\* longest message fed to one context, longest chunk of one update call
MaxMsgLen == 34

MaxChunk == 17

\* key and message of the Poly1305 test vector of RFC 8439, section 2.5.2,
\* and the all-ones key and message
KeyVector ==
  <<133, 214, 190, 120, 87, 85, 109, 51, 127, 68, 82, 254, 66, 213, 6, 168,
    1, 3, 128, 138, 251, 13, 178, 253, 74, 191, 246, 175, 65, 73, 245, 27>>

KeyOnes == [i \in 1..32 |-> 255]

MsgVector ==
  <<67, 114, 121, 112, 116, 111, 103, 114, 97, 112, 104, 105, 99, 32, 70, 111,
    114, 117, 109, 32, 82, 101, 115, 101, 97, 114, 99, 104, 32, 71, 114, 111,
    117, 112>>

MsgOnes == [i \in 1..34 |-> 255]

TagVector == <<168, 6, 29, 193, 48, 81, 54, 198, 194, 43, 139, 175, 12, 1, 39, 169>>

\* the first n bytes of a byte pattern repeated for ever
Bytes(pattern, n) == [i \in 1..n |-> pattern[((i - 1) % Len(pattern)) + 1]]

\* byte lengths of the key arrays a caller passes: 8 full words, fewer and
\* more words
KeyLens == {28, 32, 36}

\* byte lengths of key arrays of 8 words the last of which is partial
PartialKeyLens == {31}

\* what a caller starts from: a key array and the message to authenticate
Callers ==
  {[key |-> fromBytes(Bytes(KeyVector, n)), tape |-> MsgVector] : n \in KeyLens}
    \cup {[key |-> fromBytes(Bytes(KeyOnes, n)), tape |-> MsgOnes] : n \in PartialKeyLens}

\* byte lengths of the chunks passed to update
Chunks == {0, MaxChunk - 2, MaxChunk - 1, MaxChunk}

\* byte lengths of the cipher keys and nonces passed to the adapter
CipherLens == {<<16, 16>>, <<12, 16>>, <<16, 20>>, <<15, 16>>}

\* blocks the cipher may return
CipherBlocks == {fromBytes(SubSeq(KeyVector, 17, 32))}

\* ------------------------------------------------------------------------
\* the state machine
\* ------------------------------------------------------------------------

VARIABLES
  key,      \* the caller's array passed to poly1305
  rArr,     \* the caller's array passed as r to poly1305aes
  tape,     \* the bytes the caller authenticates
  ctx,      \* the context object the caller holds
  src,      \* "none", or the entry point that built ctx: "key", "aes"
  given,    \* the bytes of the array handed to the constructor of ctx
  fed,      \* the bytes passed to update of ctx so far
  updated,  \* update has been called on ctx
  out       \* what the last call returned or threw, with the bit lengths
            \* of the arrays whose size the call checks

vars == <<key, rArr, tape, ctx, src, given, fed, updated, out>>

Ret(kind) ==
  [kind |-> kind, val |-> <<>>, ok |-> FALSE, arg |-> <<>>, steps |-> 0, enc |-> 0,
   key |-> <<>>, n |-> 0, len |-> <<>>]

Init ==
  /\ \E c \in Callers : key = c.key /\ tape = c.tape
  /\ rArr = slice(key, 0, Len(key) - 4)
  /\ ctx = NoContext
  /\ src = "none"
  /\ given = <<>>
  /\ fed = <<>>
  /\ updated = FALSE
  /\ out = Ret("none")

live == src # "none"

\* ctx = new sjcl.misc.poly1305(key)
Construct ==
  LET n == poly1305(key)
  IN  IF n.threw
        THEN /\ out' = [Ret("invalid") EXCEPT !.len = <<bitLength(key)>>]
             /\ key' = n.key
             /\ UNCHANGED <<rArr, tape, ctx, src, given, fed, updated>>
        ELSE /\ key' = n.key
             /\ ctx' = n.this
             /\ src' = "key"
             /\ given' = toBytes(key)
             /\ fed' = <<>>
             /\ updated' = FALSE
             /\ out' = [Ret("new") EXCEPT !.len = <<bitLength(key)>>]
             /\ UNCHANGED <<rArr, tape>>

\* sjcl.misc.poly1305(key, data), data the bytes streamed so far
OneShot ==
  LET ret(c) ==
        /\ key' = c.key
        /\ out' = IF c.threw THEN [Ret("invalid") EXCEPT !.len = <<bitLength(key)>>]
                  ELSE [Ret("oneshot") EXCEPT !.val = c.tag, !.key = toBytes(key),
                                              !.n = Len(fed), !.len = <<bitLength(key)>>]
  IN  /\ ret(poly1305Call(key, fromBytes(fed)))
      /\ UNCHANGED <<rArr, tape, ctx, src, given, fed, updated>>

\* the bytes of the tape from position from + 1 to position to
Tape(from, to) == [i \in 1..(to - from) |-> tape[((from + i - 1) % Len(tape)) + 1]]

\* ctx.update(data), data the next n bytes of the tape
Update(n) ==
  /\ live
  /\ Len(fed) + n <= MaxMsgLen
  /\ ctx' = update(ctx, fromBytes(Tape(Len(fed), Len(fed) + n)))
  /\ fed' = fed \o Tape(Len(fed), Len(fed) + n)
  /\ updated' = TRUE
  /\ out' = Ret("this")
  /\ UNCHANGED <<key, rArr, tape, src, given>>

\* ctx.finalize()
Finalize ==
  LET ret(f) == ctx' = f.this /\ out' = [Ret("tag") EXCEPT !.val = f.tag]
  IN  /\ live
      /\ ret(finalize(ctx))
      /\ UNCHANGED <<key, rArr, tape, src, given, fed, updated>>

\* b with its lowest bit flipped
Flip(b) == IF b % 2 = 0 THEN b + 1 ELSE b - 1

\* the tags a caller passes to verify, made from a tag t it was given: t,
\* t with its first or its last byte changed, and t without its last byte
Variants(b) ==
  { fromBytes(b),
    fromBytes([b EXCEPT ![1] = Flip(b[1])]),
    fromBytes([b EXCEPT ![Len(b)] = Flip(b[Len(b)])]),
    fromBytes(SubSeq(b, 1, Len(b) - 1)) }

Candidates(t) == Variants(toBytes(t))

\* ctx.verify(tag), tag made from the tag the last call returned
Verify(tag) ==
  LET ret(v) ==
        /\ ctx' = v.this
        /\ out' = [Ret("verify") EXCEPT !.ok = v.ok, !.arg = tag, !.steps = v.steps]
  IN  /\ live
      /\ ret(verify(ctx, tag))
      /\ UNCHANGED <<key, rArr, tape, src, given, fed, updated>>

\* a byte-aligned array of n zero bytes
Zeros(n) == fromBytes([i \in 1..n |-> 0])

\* the bit lengths of the cipher key and the nonce of those byte lengths
CipherBits(lens) == <<bitLength(Zeros(lens[1])), bitLength(Zeros(lens[2]))>>

\* ctx = new sjcl.misc.poly1305aes(rArr, key, nonce)
AesConstruct(lens, block) ==
  LET a == poly1305aes(rArr, Zeros(lens[1]), Zeros(lens[2]), block)
  IN  IF a.threw
        THEN /\ out' = [Ret("invalid") EXCEPT !.enc = a.enc, !.len = CipherBits(lens)]
             /\ rArr' = a.r
             /\ UNCHANGED <<key, tape, ctx, src, given, fed, updated>>
        ELSE /\ ctx' = a.this
             /\ src' = "aes"
             /\ given' = toBytes(a.given)
             /\ fed' = <<>>
             /\ updated' = FALSE
             /\ out' = [Ret("new") EXCEPT !.enc = a.enc, !.len = CipherBits(lens)]
             /\ rArr' = a.r
             /\ UNCHANGED <<key, tape>>

\* sjcl.misc.poly1305aes(rArr, key, nonce, data)
AesOneShot(lens, block) ==
  LET ret(a) ==
        /\ out' = IF a.threw
                    THEN [Ret("invalid") EXCEPT !.enc = a.enc, !.len = CipherBits(lens)]
                    ELSE [Ret("oneshot") EXCEPT !.val = a.tag, !.key = toBytes(a.given),
                                                !.n = Len(fed), !.enc = a.enc,
                                                !.len = CipherBits(lens)]
        /\ rArr' = a.r
  IN  /\ ret(poly1305aesCall(rArr, Zeros(lens[1]), Zeros(lens[2]), block, fromBytes(fed)))
      /\ UNCHANGED <<key, tape, ctx, src, given, fed, updated>>

Next ==
  \/ Construct
  \/ OneShot
  \/ \E n \in Chunks : Update(n)
  \/ Finalize
  \/ \E t \in (IF out.kind = "tag" THEN Candidates(out.val) ELSE {}) : Verify(t)
  \/ \E l \in CipherLens, b \in CipherBlocks : AesConstruct(l, b)
  \/ \E l \in CipherLens, b \in CipherBlocks : AesOneShot(l, b)

Spec == Init /\ [][Next]_vars

\* ------------------------------------------------------------------------
\* the contract, stated on bytes: what the properties below compare the
\* program with
\* ------------------------------------------------------------------------

\* the number whose little-endian bytes are bs
NumLE(bs) == LimbsOfBytes(Pad(bs, 3 * ((Len(bs) + 2) \div 3)))

\* byte i of a key after clamping: in the little-endian 32-bit words of
\* the r half, the top 4 bits of every word and the low 2 bits of words
\* 1..3 are cleared
Masked(i, b) ==
  IF i \in {4, 8, 12, 16} THEN b % 16
  ELSE IF i \in {5, 9, 13} THEN (b \div 4) * 4
  ELSE b

ClampedBytes(k) == [i \in 1..Len(k) |-> Masked(i, k[i])]

\* the clamped r and the s of a key given by its bytes
RefR(k) == NumLE(SubSeq(ClampedBytes(k), 1, 16))

RefS(k) == NumLE(SubSeq(k, 17, 32))

\* the coefficient of the n bytes of M after byte `at`: their
\* little-endian value with the marker bit 2^(8n) on top
Coef(M, at, n) == NumLE(SubSeq(M, at + 1, at + n) \o <<1>>)

\* r^e for e >= 1
RECURSIVE Power(_, _)
Power(r, e) == IF e = 1 THEN r ELSE mul(Power(r, e - 1), r)

\* the sum over j = i..k of c_j * r^(k - j + 1), c_j the coefficient of the
\* j-th 16-byte block of M (of what is left of M, for the last one)
RECURSIVE PolySum(_, _, _, _)
PolySum(M, r, k, i) ==
  IF i > k THEN <<0>>
  ELSE addM(mul(Coef(M, 16 * (i - 1), Min(16, Len(M) - 16 * (i - 1))), Power(r, k - i + 1)),
            PolySum(M, r, k, i + 1))

\* the polynomial of the first k blocks of M modulo 2^130 - 5
RefAcc(k, M, q) == fullReduce(PolySum(M, RefR(k), q, 1))

\* the 16 bytes of the tag of message M under key k
RefTag(k, M) ==
  BytesOfLimbs(normalize(addM(RefAcc(k, M, (Len(M) + 15) \div 16), RefS(k))), 128)

\* a fresh context on the key the live context was built from
Fresh == poly1305(fromBytes(given)).this

\* ------------------------------------------------------------------------
\* properties
\* ------------------------------------------------------------------------

\* C1: whatever chunks the bytes fed so far arrived in, the accumulator and
\* the buffer of the context are those of a fresh context given all the
\* bytes in one update call, and finalize returns the same tag on both
C1_ChunkingEquivalence ==
  LET same(one) ==
        /\ ctx.h = one.h
        /\ ctx.buffer = one.buffer
        /\ finalize(ctx).tag = finalize(one).tag
  IN  live => same(update(Fresh, fromBytes(fed)))

\* 30 bytes arrive only as two chunks of 15: the second call completes a
\* block with the bytes the first one buffered and buffers the rest
C1_Witness ==
  /\ live
  /\ Len(fed) = 30
  /\ ~ctx.buffer.isNull
  /\ ctx.h # <<0>>

\* C2: the tag finalize returns, and the tag the one-shot call returns, on a
\* 256-bit key and a message of n bytes is the little-endian encoding of
\* ((sum of c_i * r^(k - i + 1)) mod (2^130 - 5) + s) mod 2^128, with one
\* coefficient LE(block) + 2^128 for each full block and, only for a tail
\* of L > 0 bytes, a last coefficient LE(tail) + 2^(8L)
C2_TagFormula ==
  /\ (out.kind = "tag" /\ Len(given) = 32) => toBytes(out.val) = RefTag(given, fed)
  /\ (out.kind = "oneshot" /\ Len(out.key) = 32) =>
       toBytes(out.val) = RefTag(out.key, SubSeq(fed, 1, out.n))

C2_Witness ==
  /\ out.kind = "tag"
  /\ Len(given) = 32
  /\ given = KeyVector
  /\ fed = MsgVector
  /\ Len(fed) % 16 # 0
  /\ Len(fed) > 32
  /\ toBytes(out.val) = TagVector
  /\ RefTag(given, fed) = TagVector

\* C9: after updates totalling n bytes the buffer holds the last n mod 16
\* bytes (no buffer when n mod 16 = 0, never 16 bytes or more) and the
\* accumulator is the polynomial of the first floor(n / 16) blocks
C9_BufferAndBlocks ==
  live =>
    /\ (Len(fed) % 16 = 0) = ctx.buffer.isNull
    /\ toBytes(ctx.buffer.a) = SubSeq(fed, Len(fed) - (Len(fed) % 16) + 1, Len(fed))
    /\ bitLength(ctx.buffer.a) < 128
    /\ ctx.h = RefAcc(given, fed, Len(fed) \div 16)

C9_Witness ==
  /\ live
  /\ Len(fed) = 32
  /\ ctx.buffer.isNull
  /\ ctx.h = RefAcc(given, fed, 2)

\* C3: a finalize or a verify step leaves the context (accumulator, buffer,
\* r, s) as it found it, and the tag finalize returns is the tag of exactly
\* the bytes fed so far, whatever calls came before
C3_FinalizeVerifyPure ==
  /\ [](out.kind = "tag" => out.val = finalize(update(Fresh, fromBytes(fed))).tag)
  /\ [][out'.kind \in {"tag", "verify"} => ctx' = ctx]_vars

C3_Witness ==
  /\ out.kind = "tag"
  /\ ~ctx.buffer.isNull
  /\ Len(fed) > 16
  /\ out.val = finalize(ctx).tag
  /\ ctx = update(Fresh, fromBytes(fed))

\* the sizes the contract asks for: a key of 256 bits, or a cipher key and
\* a nonce of 128 bits each
SizesOk(l) ==
  \/ Len(l) = 1 /\ l[1] = 256
  \/ Len(l) = 2 /\ l[1] = 128 /\ l[2] = 128

\* C4: a call given a key whose bit length is not 256, or a cipher key or
\* a nonce whose bit length is not 128, throws the invalid-size error and
\* has set no field, changed no key, encrypted nothing, returned no tag
C4_InvalidSizeRaises ==
  [][(out'.len # <<>> /\ ~SizesOk(out'.len)) =>
       /\ out'.kind = "invalid"
       /\ out'.enc = 0
       /\ out'.val = <<>>
       /\ ctx' = ctx
       /\ src' = src
       /\ key' = key]_vars

C6_Clamp ==
  live =>
    /\ ctx.r = NumLE(BytesOfLimbs(ctx.r, 128))
    /\ \A i \in 1..16 : BytesOfLimbs(ctx.r, 128)[i] = Masked(i, given[i])
    /\ \A w \in 0..3 : BytesOfLimbs(ctx.r, 128)[4 * w + 4] < 16
    /\ \A w \in 1..3 : BytesOfLimbs(ctx.r, 128)[4 * w + 1] % 4 = 0

C6_Witness ==
  /\ live
  /\ given[4] >= 16
  /\ given[5] % 4 # 0
  /\ ctx.r = RefR(given)

\* C7: on a 256-bit key, finalize on a context that was fed no byte returns
\* the 16 bytes of the s half of the key
C7_EmptyMessage ==
  (out.kind = "tag" /\ fed = <<>> /\ Len(given) = 32) =>
    toBytes(out.val) = SubSeq(given, 17, 32)

C7_Witness ==
  /\ out.kind = "tag"
  /\ fed = <<>>
  /\ updated
  /\ Len(given) = 32
  /\ RefR(given) # NumLE(<<>>)
  /\ toBytes(out.val) = SubSeq(given, 17, 32)

\* C8: verify returns true on the tag finalize returns in the same state
C8_VerifyOwnTag ==
  (out.kind = "verify" /\ out.arg = finalize(ctx).tag) => out.ok

C8_Witness ==
  /\ out.kind = "verify"
  /\ out.arg = finalize(ctx).tag
  /\ out.ok
  /\ Len(fed) > 16
  /\ ~ctx.buffer.isNull

\* C10: the caller's key array holds, after a construction, the clamped r
\* half and the s half as given; no step on a context built from it
\* changes it again, a second construction from it gives the same r and
\* s, and no call changes the array passed as r to the adapter
C10_KeyArray ==
  /\ [](src = "key" => key = fromBytes(ClampedBytes(given)))
  /\ [][/\ src = "key" => key' = key
        /\ (src = "key" /\ src' = "key" /\ out'.kind = "new") =>
             (ctx'.r = ctx.r /\ ctx'.s = ctx.s)
        /\ rArr' = rArr]_vars

\* the array as given equals the array as left only at a second
\* construction: the first one cleared bits of it
C10_Witness ==
  /\ src = "key"
  /\ out.kind = "new"
  /\ given = toBytes(key)
  /\ given[4] < 16
  /\ KeyVector[4] >= 16
  /\ SubSeq(given, 17, 32) = SubSeq(KeyVector, 17, 32)
  /\ ctx.r = RefR(given)

====
